---- MODULE Spec2Model ----
(***************************************************************************)
(* Streaming chat client of rag-practice-frontend: the SSE frame decoder   *)
(* and event dispatcher of chatService.sendMessageStream, the message list *)
(* of ChatSessionPage, and the session list of useChatStore.               *)
(*                                                                         *)
(* Text is a sequence of one-character strings.  The wire carries bytes:   *)
(* an ASCII byte is its character, "C3" "A9" are the two bytes of the      *)
(* UTF-8 encoding of U+00E9.                                               *)
(***************************************************************************)
EXTENDS Integers, Sequences, FiniteSets, TLC

\* ------------------------------------------------------------------------
\* Bounds of the model
\* ------------------------------------------------------------------------
\* frames per wire stream handed to the decoder specification
MaxStreamFrames == 2
\* turns started in one session view
MaxTurns == 2
\* chunks the readers of one session view return in total
MaxReads == 2
\* requests the session list's users issue to the session collaborator
MaxCalls == 3

\* ------------------------------------------------------------------------
\* Text primitives
\* ------------------------------------------------------------------------
NL == "\n"
QUOTE == "\""
LeadByte == "C3"
ContByte == "A9"
EAcute == "U+E9"
Replacement == "U+FFFD"

\* String.prototype.trim: the white space of the model's alphabet
IsWhiteSpace(c) == c \in {" ", NL}

RECURSIVE TrimStart(_)
TrimStart(s) ==
  IF s # <<>> /\ IsWhiteSpace(Head(s)) THEN TrimStart(Tail(s)) ELSE s

RECURSIVE TrimEnd(_)
TrimEnd(s) ==
  IF s # <<>> /\ IsWhiteSpace(s[Len(s)])
  THEN TrimEnd(SubSeq(s, 1, Len(s) - 1))
  ELSE s

Trim(s) == TrimEnd(TrimStart(s))

\* s has pat at index i (1-based)
HasAt(s, pat, i) ==
  /\ i >= 1
  /\ i + Len(pat) - 1 <= Len(s)
  /\ SubSeq(s, i, i + Len(pat) - 1) = pat

\* String.prototype.split(sep): left to right, non-overlapping
RECURSIVE SplitOn(_, _)
SplitOn(s, sep) ==
  LET hits == {i \in 1..Len(s) : HasAt(s, sep, i)} IN
  IF hits = {} THEN <<s>>
  ELSE LET i == CHOOSE k \in hits : \A j \in hits : k <= j IN
       <<SubSeq(s, 1, i - 1)>> \o SplitOn(SubSeq(s, i + Len(sep), Len(s)), sep)

\* the concatenation of a list of texts
RECURSIVE Concat(_)
Concat(ss) ==
  IF ss = <<>> THEN <<>>
  ELSE IF Len(ss) = 1 THEN ss[1]
  ELSE LET h == Len(ss) \div 2 IN
       Concat(SubSeq(ss, 1, h)) \o Concat(SubSeq(ss, h + 1, Len(ss)))

\* ------------------------------------------------------------------------
\* TextDecoder("utf-8").decode(value, { stream: true })
\* ------------------------------------------------------------------------
\* what the decoder emits for byte b; `held` is TRUE when the lead byte of
\* a two-byte character was held back just before b
Utf8Byte(held, b) ==
  IF held
  THEN IF b = ContByte THEN <<EAcute>>
       ELSE IF b = LeadByte THEN <<Replacement>>
       ELSE <<Replacement, b>>
  ELSE IF b = LeadByte THEN <<>>
       ELSE IF b = ContByte THEN <<Replacement>>
       ELSE <<b>>

\* decode one chunk: the text it yields and whether a lead byte is held
\* back for the next chunk (`pending` is what the previous chunk held back)
TextDecode(pending, bytes) ==
  LET held(i) == IF i = 1 THEN pending ELSE bytes[i - 1] = LeadByte IN
  [text |-> Concat([i \in 1..Len(bytes) |-> Utf8Byte(held(i), bytes[i])]),
   pending |-> IF bytes = <<>> THEN pending ELSE bytes[Len(bytes)] = LeadByte]

\* ------------------------------------------------------------------------
\* JSON.parse on the payloads the model sends: string literals without
\* escapes, unsigned integers, arrays of integers, objects with integer
\* members.  Every other text of the model's alphabet is no JSON.
\* ------------------------------------------------------------------------
Digits == <<"0", "1", "2", "3", "4", "5", "6", "7", "8", "9">>
IsDigit(c) == \E i \in 1..10 : Digits[i] = c
DigitVal(c) == (CHOOSE i \in 1..10 : Digits[i] = c) - 1

\* a JSON value, or the parse failure (ok = FALSE), in one record shape
JValue(t, s, n, a, o) == [ok |-> TRUE, t |-> t, s |-> s, n |-> n, a |-> a, o |-> o]
JString(s) == JValue("string", s, 0, <<>>, <<>>)
JNumber(n) == JValue("number", <<>>, n, <<>>, <<>>)
JArray(a) == JValue("array", <<>>, 0, a, <<>>)
JObject(o) == JValue("object", <<>>, 0, <<>>, o)
JUndefined == JValue("undefined", <<>>, 0, <<>>, <<>>)
JFail == [ok |-> FALSE, t |-> "none", s |-> <<>>, n |-> 0, a |-> <<>>, o |-> <<>>]

IsNumberText(s) ==
  /\ s # <<>>
  /\ \A i \in 1..Len(s) : IsDigit(s[i])
  /\ Len(s) = 1 \/ s[1] # "0"

RECURSIVE NumberValue(_)
NumberValue(s) ==
  IF s = <<>> THEN 0
  ELSE 10 * NumberValue(SubSeq(s, 1, Len(s) - 1)) + DigitVal(s[Len(s)])

IsStringText(s) ==
  /\ Len(s) >= 2
  /\ s[1] = QUOTE
  /\ s[Len(s)] = QUOTE
  /\ \A i \in 2..(Len(s) - 1) : s[i] \notin {QUOTE, NL, "\\"}

StringValue(s) == SubSeq(s, 2, Len(s) - 1)

\* the members of "[...]" or "{...}", split at the commas
Members(s) ==
  LET inner == SubSeq(s, 2, Len(s) - 1) IN
  IF inner = <<>> THEN <<>> ELSE SplitOn(inner, <<",">>)

IsArrayText(s) ==
  /\ Len(s) >= 2
  /\ s[1] = "["
  /\ s[Len(s)] = "]"
  /\ \A i \in 1..Len(Members(s)) : IsNumberText(Members(s)[i])

IsMemberText(m) ==
  LET kv == SplitOn(m, <<":">>) IN
  /\ Len(kv) = 2
  /\ IsStringText(kv[1])
  /\ IsNumberText(kv[2])

MemberValue(m) ==
  LET kv == SplitOn(m, <<":">>) IN
  [k |-> StringValue(kv[1]), v |-> NumberValue(kv[2])]

IsObjectText(s) ==
  /\ Len(s) >= 2
  /\ s[1] = "{"
  /\ s[Len(s)] = "}"
  /\ \A i \in 1..Len(Members(s)) : IsMemberText(Members(s)[i])

JSONParse(s) ==
  IF IsStringText(s) THEN JString(StringValue(s))
  ELSE IF IsNumberText(s) THEN JNumber(NumberValue(s))
  ELSE IF IsArrayText(s)
       THEN JArray([i \in 1..Len(Members(s)) |-> NumberValue(Members(s)[i])])
  ELSE IF IsObjectText(s)
       THEN JObject([i \in 1..Len(Members(s)) |-> MemberValue(Members(s)[i])])
  ELSE JFail

\* ------------------------------------------------------------------------
\* JavaScript conversions used by the page's callbacks
\* ------------------------------------------------------------------------
RECURSIVE NumberToString(_)
NumberToString(n) ==
  IF n < 10 THEN <<Digits[n + 1]>>
  ELSE NumberToString(n \div 10) \o <<Digits[(n % 10) + 1]>>

RECURSIVE JoinNumbers(_)
JoinNumbers(a) ==
  IF a = <<>> THEN <<>>
  ELSE IF Len(a) = 1 THEN NumberToString(a[1])
  ELSE NumberToString(a[1]) \o <<",">> \o JoinNumbers(Tail(a))

ObjectObject ==
  <<"[", "o", "b", "j", "e", "c", "t", " ", "O", "b", "j", "e", "c", "t", "]">>

\* the string that `"" + v` yields
ToStringJS(v) ==
  IF v.t = "string" THEN v.s
  ELSE IF v.t = "number" THEN NumberToString(v.n)
  ELSE IF v.t = "array" THEN JoinNumbers(v.a)
  ELSE ObjectObject

\* numbers of the page: NaN is a value of its own
NaN == 0 - 1
\* an absent optional field of a record
Undefined == 0 - 2

\* v.key for a parsed value: the last member of that name, else undefined
Property(v, key) ==
  LET hits == {i \in 1..Len(v.o) : v.o[i].k = key} IN
  IF v.t # "object" \/ hits = {} THEN Undefined
  ELSE v.o[CHOOSE i \in hits : \A j \in hits : j <= i].v

\* a + b on numbers or undefined
AddJS(a, b) == IF a = Undefined \/ b = Undefined THEN NaN ELSE a + b

\* a || b on numbers, NaN or undefined
OrJS(a, b) == IF a \in {0, NaN, Undefined} THEN b ELSE a

\* ------------------------------------------------------------------------
\* The wire format and the read loop of sendMessageStream
\* ------------------------------------------------------------------------
EventPrefix == <<"e", "v", "e", "n", "t", ":", " ">>
DataSeparator == <<NL, "d", "a", "t", "a", ":", " ">>
FrameDelimiter == <<NL, NL>>
MessageEvent == <<"m", "e", "s", "s", "a", "g", "e">>
SourcesEvent == <<"s", "o", "u", "r", "c", "e", "s">>
UsageEvent == <<"u", "s", "a", "g", "e">>

\* line.match(/^event: (.*)\ndata: (.*)/s): the first group is greedy and
\* the dot matches a newline, so the separator found is the last one
MatchFrame(line) ==
  LET seps == {i \in (Len(EventPrefix) + 1)..Len(line) : HasAt(line, DataSeparator, i)} IN
  IF ~HasAt(line, EventPrefix, 1) \/ seps = {}
  THEN [ok |-> FALSE, event |-> <<>>, data |-> <<>>]
  ELSE LET i == CHOOSE k \in seps : \A j \in seps : j <= k IN
       [ok |-> TRUE,
        event |-> Trim(SubSeq(line, Len(EventPrefix) + 1, i - 1)),
        data |-> Trim(SubSeq(line, i + Len(DataSeparator), Len(line)))]

\* a payload that does not decode is handed on as raw text for every event
DispatchFrameRawFallback(f) ==
  LET v == JSONParse(f.data)
      val == IF v.ok THEN v ELSE JString(f.data) IN
  IF f.event = MessageEvent THEN <<[cb |-> "message", val |-> val]>>
  ELSE IF f.event = SourcesEvent THEN <<[cb |-> "sources", val |-> val]>>
  ELSE IF f.event = UsageEvent THEN <<[cb |-> "usage", val |-> val]>>
  ELSE <<>>

\* an event name that is not known is taken for a content frame
DispatchFrameDefaultMessage(f) ==
  LET v == JSONParse(f.data) IN
  IF f.event = SourcesEvent
  THEN IF v.ok THEN <<[cb |-> "sources", val |-> v]>> ELSE <<>>
  ELSE IF f.event = UsageEvent
  THEN IF v.ok THEN <<[cb |-> "usage", val |-> v]>> ELSE <<>>
  ELSE <<[cb |-> "message", val |-> IF v.ok THEN v ELSE JString(f.data)]>>

\* the callback one matched frame invokes, as a list of zero or one call
DispatchFrame(f) ==
  LET v == JSONParse(f.data) IN
  IF f.event = MessageEvent
  THEN <<[cb |-> "message", val |-> IF v.ok THEN v ELSE JString(f.data)]>>
  ELSE IF f.event = SourcesEvent
  THEN IF v.ok THEN <<[cb |-> "sources", val |-> v]>> ELSE <<>>
  ELSE IF f.event = UsageEvent
  THEN IF v.ok THEN <<[cb |-> "usage", val |-> v]>> ELSE <<>>
  ELSE <<>>

\* a piece that does not match ends the pass: the pieces after it are lost
RECURSIVE MatchedFramesUntilBad(_)
MatchedFramesUntilBad(lines) ==
  IF lines = <<>> THEN <<>>
  ELSE LET m == MatchFrame(Head(lines)) IN
       IF m.ok
       THEN <<[event |-> m.event, data |-> m.data]>> \o MatchedFramesUntilBad(Tail(lines))
       ELSE <<>>

RECURSIVE MatchedFrames(_)
MatchedFrames(lines) ==
  IF lines = <<>> THEN <<>>
  ELSE LET m == MatchFrame(Head(lines)) IN
       (IF m.ok THEN <<[event |-> m.event, data |-> m.data]>> ELSE <<>>)
         \o MatchedFrames(Tail(lines))

RECURSIVE DispatchAll(_)
DispatchAll(frames) ==
  IF frames = <<>> THEN <<>>
  ELSE DispatchFrame(Head(frames)) \o DispatchAll(Tail(frames))

\* the buffer is not carried over to the next chunk
KeepBufferLost(lines) == <<>>

\* what is left in the buffer after the split: lines.pop() || ""
KeepBuffer(lines) == lines[Len(lines)]

\* the chunk is split on its own: buffer = chunk instead of buffer += chunk
ProcessChunkFreshBuffer(dec, bytes) ==
  LET td == TextDecode(dec.pending, bytes)
      lines == SplitOn(td.text, FrameDelimiter)
      frames == MatchedFrames(SubSeq(lines, 1, Len(lines) - 1))
  IN [pending |-> td.pending,
      buffer |-> KeepBuffer(lines),
      frames |-> frames,
      calls |-> DispatchAll(frames)]

\* one pass of the loop body for a chunk that the reader returned:
\* dec = [pending, buffer]; yields the new decoder state, the frames matched
\* and the callbacks invoked, in order
ProcessChunk(dec, bytes) ==
  LET td == TextDecode(dec.pending, bytes)
      lines == SplitOn(dec.buffer \o td.text, FrameDelimiter)
      frames == MatchedFrames(SubSeq(lines, 1, Len(lines) - 1))
  IN [pending |-> td.pending,
      buffer |-> KeepBuffer(lines),
      frames |-> frames,
      calls |-> DispatchAll(frames)]

NewDecoder == [pending |-> FALSE, buffer |-> <<>>]

\* ------------------------------------------------------------------------
\* State
\* ------------------------------------------------------------------------
VARIABLES
  \* one response body fed to the read loop on its own
  wire,        \* the bytes of the body
  consumed,    \* how many of them the reader has returned so far
  decoder,     \* [pending, buffer]: the TextDecoder's state and `buffer`
  emitted,     \* the (event, data) frames matched so far, in order
  called,      \* the callbacks invoked so far, in order
  cutInside,   \* some chunk so far ended inside a frame
  ended,       \* the reader has reported done
  \* one session view (ChatSessionPage)
  messages,    \* the message list
  streaming,   \* the view's streaming indicator
  turns,       \* the exchanges started, in order: the state of each call of
               \* handleSendMessage / sendMessageStream
  reads,       \* chunks returned so far
  lastStep,    \* the operation that led to this state
  session,     \* the view's `session` state: null or the session loaded
  refreshing,  \* getSession calls of refreshSessionInfo in flight
  \* the shared session list (useChatStore) and its collaborator
  sessions,    \* the local ordered list
  isLoading,   \* the list's loading flag
  server,      \* the collaborator's collection, most recent first
  clock,       \* the collaborator's clock and id counter
  requests,    \* the requests issued so far, each with its stage
  lastCall,    \* the step of a request that led to this state
  \* the authentication state (useAuthStore)
  auth         \* [token, user, isAuthenticated]

decoderVars == <<wire, consumed, decoder, emitted, called, cutInside, ended>>
chatVars == <<messages, streaming, turns, reads, lastStep, session, refreshing>>
sessionVars == <<sessions, isLoading, server, clock, requests, lastCall, auth>>
vars == <<decoderVars, chatVars, sessionVars>>

\* ------------------------------------------------------------------------
\* Initial states of the three parts
\* ------------------------------------------------------------------------
\* useState<ChatSession | null>(null)
NullSession == [loaded |-> FALSE, title |-> ""]
LoadedSession(title) == [loaded |-> TRUE, title |-> title]

\* useState([]), useState(false), useState(null): no turn yet
InitChat ==
  /\ messages = <<>>
  /\ streaming = FALSE
  /\ turns = <<>>
  /\ reads = 0
  /\ lastStep = [kind |-> "init", turn |-> 0]
  /\ session = NullSession
  /\ refreshing = 0

\* useAuthStore after login(token, user), the state in which the dashboard
\* is shown, and after logout()
LoggedIn == [token |-> "token", user |-> "user", isAuthenticated |-> TRUE]
logout == [token |-> "null", user |-> "null", isAuthenticated |-> FALSE]

\* create<ChatState>: sessions [], isLoading false; the collaborator holds
\* one session already; the user is logged in
InitSessions ==
  /\ auth = LoggedIn
  /\ sessions = <<>>
  /\ isLoading = FALSE
  /\ server = <<[id |-> 1, title |-> "Topic", icon |-> "message-square",
                 top_k |-> 3, updated_at |-> 1]>>
  /\ clock = 1
  /\ requests = <<>>
  /\ lastCall = [kind |-> "init", call |-> 0]

\* no body is being read
IdleDecoder ==
  /\ wire = <<>>
  /\ consumed = 0
  /\ decoder = NewDecoder
  /\ emitted = <<>>
  /\ called = <<>>
  /\ cutInside = FALSE
  /\ ended = FALSE

\* ------------------------------------------------------------------------
\* Response bodies
\* ------------------------------------------------------------------------
Frame(event, data) == EventPrefix \o event \o DataSeparator \o data \o FrameDelimiter

\* event: message / data: "a"
MessageJsonFrame == Frame(MessageEvent, <<QUOTE, "a", QUOTE>>)
\* event: message / data: b<U+00E9>   (no JSON: the raw text is the fragment)
MessageRawFrame == Frame(MessageEvent, <<"b", LeadByte, ContByte>>)
\* event: sources / data: [1,2]
SourcesFrame == Frame(SourcesEvent, <<"[", "1", ",", "2", "]">>)
\* event: ping / data: x   (an event name the dispatcher does not know)
UnknownFrame == Frame(<<"p", "i", "n", "g">>, <<"x">>)

\* event: message / data: [1,2]   (JSON, but no text)
MessageArrayFrame == Frame(MessageEvent, <<"[", "1", ",", "2", "]">>)

WellFormedFrames ==
  {MessageJsonFrame, MessageRawFrame, MessageArrayFrame, SourcesFrame, UnknownFrame}

\* the concatenations of 1..n pieces
RECURSIVE Bodies(_, _)
Bodies(pieces, n) ==
  IF n = 0 THEN {}
  ELSE pieces \cup {b \o p : b \in Bodies(pieces, n - 1), p \in pieces}

\* a piece of a body with the frames it is built from: a frame of the
\* two-line pattern, or a fragment that is none, each closed by a blank line
ValidPiece(event, data) ==
  [text |-> Frame(event, data), frames |-> <<[event |-> event, data |-> data]>>]
MalformedPiece(text) == [text |-> text \o FrameDelimiter, frames |-> <<>>]

ValidPieces ==
  {ValidPiece(MessageEvent, <<QUOTE, "a", QUOTE>>),
   ValidPiece(SourcesEvent, <<"[", "1", ",", "2", "]">>)}

\* a line that is no event line; an event line without a data line; a data
\* line without an event line
MalformedPieces ==
  {MalformedPiece(<<"p", "i", "n", "g">>),
   MalformedPiece(EventPrefix \o MessageEvent),
   MalformedPiece(<<"d", "a", "t", "a", ":", " ", "x">>)}

\* bodies in which a malformed fragment stands before, between or after
\* valid frames
InterspersedBodies ==
  {<<m, v>> : m \in MalformedPieces, v \in ValidPieces}
    \cup {<<v, m>> : m \in MalformedPieces, v \in ValidPieces}
    \cup {<<v, m, w>> : m \in MalformedPieces, v \in ValidPieces, w \in ValidPieces}

BodyText(body) == Concat([i \in 1..Len(body) |-> body[i].text])
BodyFrames(body) == Concat([i \in 1..Len(body) |-> body[i].frames])

DecoderWires ==
  Bodies(WellFormedFrames, MaxStreamFrames)
    \cup {BodyText(body) : body \in InterspersedBodies}

\* ------------------------------------------------------------------------
\* The session view: handleSendMessage, updateLastMessage, handleStop
\* ------------------------------------------------------------------------
InputTokensKey == <<"i", "n", "p", "u", "t", "_", "t", "o", "k", "e", "n", "s">>
OutputTokensKey == <<"o", "u", "t", "p", "u", "t", "_", "t", "o", "k", "e", "n", "s">>
TotalTokensKey == <<"t", "o", "t", "a", "l", "_", "t", "o", "k", "e", "n", "s">>

\* { role: "user", content: input }; an absent isStreaming reads as false.
\* `turn` names the call of handleSendMessage that created the record.
UserRecord(input, t) ==
  [role |-> "user", content |-> input, isStreaming |-> FALSE,
   sources |-> JUndefined, token_usage |-> Undefined, turn |-> t]

\* the placeholder is created without the in-progress flag
PlaceholderSettled(t) ==
  [role |-> "assistant", content |-> <<>>, isStreaming |-> FALSE,
   sources |-> JUndefined, token_usage |-> Undefined, turn |-> t]

\* { role: "assistant", content: "", isStreaming: true }
Placeholder(t) ==
  [role |-> "assistant", content |-> <<>>, isStreaming |-> TRUE,
   sources |-> JUndefined, token_usage |-> Undefined, turn |-> t]

\* the locals of one call of handleSendMessage and of the sendMessageStream
\* call it awaits; `fragments` lists what the content callback was given,
\* `stopped` tells that handleStop ran while the call was in flight,
\* `session` is the session state the closures of the call see, `errMsg` and
\* `toasts` are what the error callback was given and what it showed
NewTurn ==
  [phase |-> "sending",
   session |-> NullSession,
   errMsg |-> <<>>,
   toasts |-> <<>>,
   assistantMsgContent |-> <<>>,
   assistantSources |-> JArray(<<>>),
   tokenUsage |-> 0,
   decoder |-> NewDecoder,
   fragments |-> <<>>,
   readerDone |-> FALSE,
   finishCalls |-> 0,
   errorCalls |-> 0,
   stopped |-> FALSE]

\* the last record is written whatever its role
updateLastMessageAnyRole(msgs, content, sources, tokenUsage) ==
  LET lastIndex == Len(msgs) IN
  IF lastIndex >= 1
  THEN [msgs EXCEPT ![lastIndex] =
          [@ EXCEPT !.content = content,
                    !.sources = sources,
                    !.token_usage = OrJS(tokenUsage, @)]]
  ELSE msgs

updateLastMessage(msgs, content, sources, tokenUsage) ==
  LET lastIndex == Len(msgs) IN
  IF lastIndex >= 1 /\ msgs[lastIndex].role = "assistant"
  THEN [msgs EXCEPT ![lastIndex] =
          [@ EXCEPT !.content = content,
                    !.sources = sources,
                    !.token_usage = OrJS(tokenUsage, @)]]
  ELSE msgs

\* the content, sources and usage callbacks: st = [turn, msgs]
ApplyCall(st, call) ==
  LET t == st.turn
      t2 == IF call.cb = "message"
            THEN [t EXCEPT !.assistantMsgContent = @ \o ToStringJS(call.val),
                           !.fragments = Append(@, ToStringJS(call.val))]
            ELSE IF call.cb = "sources"
            THEN [t EXCEPT !.assistantSources = call.val]
            ELSE [t EXCEPT !.tokenUsage =
                    OrJS(Property(call.val, TotalTokensKey),
                         AddJS(Property(call.val, InputTokensKey),
                               Property(call.val, OutputTokensKey)))]
  IN [turn |-> t2,
      msgs |-> updateLastMessage(st.msgs, t2.assistantMsgContent,
                                 t2.assistantSources, t2.tokenUsage)]

RECURSIVE ApplyCalls(_, _)
ApplyCalls(st, calls) ==
  IF calls = <<>> THEN st ELSE ApplyCalls(ApplyCall(st, Head(calls)), Tail(calls))

\* the updater of the error callback
RollbackLast(prev) ==
  LET last == prev[Len(prev)] IN
  IF last.role = "assistant" /\ last.content = <<>>
  THEN SubSeq(prev, 1, Len(prev) - 1)
  ELSE prev

\* the updater of the completion callback
FinalizeLast(prev) ==
  IF prev[Len(prev)].role = "assistant"
  THEN [prev EXCEPT ![Len(prev)].isStreaming = FALSE]
  ELSE prev

\* event: usage / data: {"input_tokens":1,"output_tokens":2}
UsageFrame ==
  Frame(UsageEvent,
        <<"{", QUOTE>> \o InputTokensKey \o <<QUOTE, ":", "1", ",", QUOTE>>
          \o OutputTokensKey \o <<QUOTE, ":", "2", "}">>)

\* "key":digit
TokenMember(key, digit) == <<QUOTE>> \o key \o <<QUOTE, ":", digit>>

\* event: usage / data: {"input_tokens":1,"output_tokens":2,"total_tokens":5}
UsageTotalFrame ==
  Frame(UsageEvent,
        <<"{">> \o TokenMember(InputTokensKey, "1") \o <<",">>
          \o TokenMember(OutputTokensKey, "2") \o <<",">>
          \o TokenMember(TotalTokensKey, "5") \o <<"}">>)

\* event: usage / data: {"input_tokens":0,"output_tokens":0,"total_tokens":0}
UsageZeroFrame ==
  Frame(UsageEvent,
        <<"{">> \o TokenMember(InputTokensKey, "0") \o <<",">>
          \o TokenMember(OutputTokensKey, "0") \o <<",">>
          \o TokenMember(TotalTokensKey, "0") \o <<"}">>)

\* event: sources / data: oops   (a payload that JSON.parse rejects)
SourcesUndecodableFrame == Frame(SourcesEvent, <<"o", "o", "p", "s">>)
\* event: usage / data: {       (a payload that JSON.parse rejects)
UsageUndecodableFrame == Frame(UsageEvent, <<"{">>)

\* the chunks a reader of the view may return: whole frames of every kind,
\* and a frame cut between the two bytes of its two-byte character
RawHead == SubSeq(MessageRawFrame, 1, Len(MessageRawFrame) - 3)
RawTail == SubSeq(MessageRawFrame, Len(MessageRawFrame) - 2, Len(MessageRawFrame))
ChatChunks ==
  {MessageJsonFrame, RawHead, RawTail, SourcesFrame, UsageFrame, UsageTotalFrame,
   UsageZeroFrame, UnknownFrame, SourcesUndecodableFrame, UsageUndecodableFrame}

\* event: message / data: "b"   with no blank line after it, and the same
\* with the first of the two line feeds only
UnterminatedPair == EventPrefix \o MessageEvent \o DataSeparator \o <<QUOTE, "b", QUOTE>>
HalfTerminatedPair == UnterminatedPair \o <<NL>>

\* the chunks of a body that may end inside a frame: a whole frame, a pair
\* of lines that no blank line closes, and the blank line on its own
TailChunks == {MessageJsonFrame, UnterminatedPair, HalfTerminatedPair, FrameDelimiter}

\* every chunk a reader of the view returns in some specification
ViewChunks == ChatChunks \cup TailChunks

\* the decoder states an exchange can be in after at most n chunks
RECURSIVE DecodersWithin(_)
DecodersWithin(n) ==
  IF n = 0 THEN {NewDecoder}
  ELSE LET S == DecodersWithin(n - 1) IN
       S \cup {[pending |-> ProcessChunk(d, b).pending,
                buffer |-> ProcessChunk(d, b).buffer] : d \in S, b \in ViewChunks}

\* ProcessChunk tabulated over those states and the chunks of the view
ChunkTable ==
  [d \in DecodersWithin(MaxReads), b \in ViewChunks |-> ProcessChunk(d, b)]

Questions == {<<"q">>}

\* String.prototype.includes
Includes(s, sub) == \E i \in 1..(Len(s) + 1) : HasAt(s, sub, i)

\* ------------------------------------------------------------------------
\* The responses with which an exchange fails before any frame is read
\* ------------------------------------------------------------------------
DetailKey == <<"d", "e", "t", "a", "i", "l">>
ApiErrorPrefix == <<"A", "P", "I", " ", "E", "r", "r", "o", "r", ":", " ">>
NoBodyMessage == <<"N", "o", " ", "r", "e", "s", "p", "o", "n", "s", "e", " ", "b", "o", "d", "y">>
\* the message of the TypeError with which fetch and reader.read() reject
NetworkErrorMessage == <<"F", "a", "i", "l", "e", "d", " ", "t", "o", " ", "f", "e", "t", "c", "h">>
TooManyRequests == <<"T", "o", "o", " ", "M", "a", "n", "y", " ", "R", "e", "q", "u", "e", "s", "t", "s">>
NotFound == <<"N", "o", "t", " ", "F", "o", "u", "n", "d">>

RequestLimitPhrase == <<"D", "a", "i", "l", "y", " ", "r", "e", "q", "u", "e", "s", "t", " ", "l", "i", "m", "i", "t">>
TokenQuotaPhrase == <<"D", "a", "i", "l", "y", " ", "t", "o", "k", "e", "n", " ", "q", "u", "o", "t", "a">>

\* detail texts of the collaborator: two that name a quota, one that does
\* not, one that differs from a quota phrase in the case of a letter only
RequestLimitDetail == RequestLimitPhrase \o <<" ", "r", "e", "a", "c", "h", "e", "d">>
TokenQuotaDetail == <<"Y", "o", "u", "r", " ">> \o TokenQuotaPhrase \o <<" ", "i", "s", " ", "u", "s", "e", "d", " ", "u", "p">>
NoSessionDetail == <<"S", "e", "s", "s", "i", "o", "n", " ", "n", "o", "t", " ", "f", "o", "u", "n", "d">>
LowerCaseDetail == <<"d", "a", "i", "l", "y", " ", "r", "e", "q", "u", "e", "s", "t", " ", "l", "i", "m", "i", "t">>

\* {"key":"value"}
ObjectBody(key, value) ==
  <<"{", QUOTE>> \o key \o <<QUOTE, ":", QUOTE>> \o value \o <<QUOTE, "}">>
DetailBody(detail) == ObjectBody(DetailKey, detail)
\* a JSON body without a detail member, and a body that is no JSON
OtherBody == ObjectBody(<<"m", "e", "s", "s", "a", "g", "e">>, NoSessionDetail)
HtmlBody == <<"<", "h", "t", "m", "l", ">">>

\* response.json() on an error body: an object of one string member, or the
\* rejection (ok = FALSE)
ResponseJson(body) ==
  LET inner == SubSeq(body, 2, Len(body) - 1)
      kv == SplitOn(inner, <<":">>)
  IN IF /\ Len(body) >= 2
        /\ body[1] = "{"
        /\ body[Len(body)] = "}"
        /\ Len(kv) = 2
        /\ IsStringText(kv[1])
        /\ IsStringText(kv[2])
     THEN [ok |-> TRUE, key |-> StringValue(kv[1]), value |-> StringValue(kv[2])]
     ELSE [ok |-> FALSE, key |-> <<>>, value |-> <<>>]

\* the message is the status text whatever the body says
NotOkMessageStatusOnly(statusText, body) == ApiErrorPrefix \o statusText

\* the message of the Error thrown for a response that is not ok
NotOkMessage(statusText, body) ==
  LET errData == ResponseJson(body) IN
  IF errData.ok /\ errData.key = DetailKey /\ errData.value # <<>>
  THEN errData.value
  ELSE ApiErrorPrefix \o statusText

\* what the awaited fetch can bring other than an ok response with a body
Rejected == [kind |-> "rejected", statusText |-> <<>>, body |-> <<>>]
NoBody == [kind |-> "nobody", statusText |-> <<>>, body |-> <<>>]
NotOk(statusText, body) == [kind |-> "status", statusText |-> statusText, body |-> body]

Details == {RequestLimitDetail, TokenQuotaDetail, NoSessionDetail, LowerCaseDetail}

NotOkResponses ==
  {NotOk(TooManyRequests, DetailBody(d)) : d \in Details}
    \cup {NotOk(NotFound, DetailBody(<<>>)), NotOk(NotFound, OtherBody),
          NotOk(TooManyRequests, HtmlBody)}

FailedResponses == {Rejected, NoBody} \cup NotOkResponses

\* the message of the error that reaches the catch
ErrorMessage(response) ==
  IF response.kind = "rejected" THEN NetworkErrorMessage
  ELSE IF response.kind = "nobody" THEN NoBodyMessage
  ELSE NotOkMessage(response.statusText, response.body)

\* the message must be the phrase itself
IsQuotaMessageExact(errMsg) ==
  errMsg = RequestLimitPhrase \/ errMsg = TokenQuotaPhrase

\* the test of the error callback
IsQuotaMessage(errMsg) ==
  Includes(errMsg, RequestLimitPhrase) \/ Includes(errMsg, TokenQuotaPhrase)

\* toast.error(title, { description: errMsg }): the two titles of the error
\* callback, the one that names the daily quota and the one that names a
\* failed reply
QuotaToast == "quota"
FailureToast == "failure"

\* the sentinel titles of a session that has no title of its own yet; the
\* second is the three-character Chinese title, named by its code points
EnglishSentinel == "New Chat"
ChineseSentinel == "U+65B0 U+5BF9 U+8BDD"
IsSentinel(sess) == sess.title = EnglishSentinel \/ sess.title = ChineseSentinel

\* a request of the session list: op, the id it names, its stage ("sent",
\* "answered", "done"), and what the collaborator answered
NoSession == [id |-> 0, title |-> "", icon |-> "", top_k |-> 0, updated_at |-> 0]
NewCall(op, id) ==
  [op |-> op, id |-> id, stage |-> "sent", ok |-> FALSE,
   one |-> NoSession, many |-> <<>>]

\* ChatInput.handleSend -> handleSendMessage, up to the fetch
Send(input) ==
  /\ ~streaming
  /\ Len(turns) < MaxTurns
  /\ messages' = messages \o <<UserRecord(input, Len(turns) + 1),
                               Placeholder(Len(turns) + 1)>>
  /\ streaming' = TRUE
  /\ turns' = Append(turns, [NewTurn EXCEPT !.session = session])
  /\ lastStep' = [kind |-> "send", turn |-> Len(turns) + 1]
  /\ UNCHANGED <<reads, session, refreshing, decoderVars, sessionVars>>

\* the calls in flight are abandoned: no step of theirs is taken any more
StopAborts ==
  /\ streaming
  /\ streaming' = FALSE
  /\ turns' = [e \in 1..Len(turns) |->
                 IF turns[e].phase \in {"sending", "streaming"}
                 THEN [turns[e] EXCEPT !.stopped = TRUE, !.phase = "aborted"]
                 ELSE turns[e]]
  /\ lastStep' = [kind |-> "stop", turn |-> 0]
  /\ UNCHANGED <<messages, reads, session, refreshing, decoderVars, sessionVars>>

\* handleStop: setStreaming(false); the calls of sendMessageStream in flight
\* are not touched, only noted as stopped
Stop ==
  /\ streaming
  /\ streaming' = FALSE
  /\ turns' = [e \in 1..Len(turns) |->
                 IF turns[e].phase \in {"sending", "streaming"}
                 THEN [turns[e] EXCEPT !.stopped = TRUE]
                 ELSE turns[e]]
  /\ lastStep' = [kind |-> "stop", turn |-> 0]
  /\ UNCHANGED <<messages, reads, session, refreshing, decoderVars, sessionVars>>

\* the locals of a call after its error callback ran with an error of
\* message errMsg
Failed(turn, errMsg) ==
  [turn EXCEPT !.phase = "failed",
               !.errorCalls = @ + 1,
               !.errMsg = errMsg,
               !.toasts = Append(@, IF IsQuotaMessage(errMsg)
                                    THEN QuotaToast
                                    ELSE FailureToast)]

\* the error callback is invoked where the error arises and again in the
\* catch
FailTurnTwice(e, errMsg) ==
  /\ streaming' = FALSE
  /\ messages' = RollbackLast(RollbackLast(messages))
  /\ turns' = [turns EXCEPT ![e] = Failed(Failed(@, errMsg), errMsg)]
  /\ lastStep' = [kind |-> "fail", turn |-> e]
  /\ UNCHANGED <<reads, session, refreshing, decoderVars, sessionVars>>

\* catch (error) { onErrorCallback(error) } with the page's error callback
FailTurn(e, errMsg) ==
  /\ streaming' = FALSE
  /\ messages' = RollbackLast(messages)
  /\ turns' = [turns EXCEPT ![e] = Failed(@, errMsg)]
  /\ lastStep' = [kind |-> "fail", turn |-> e]
  /\ UNCHANGED <<reads, session, refreshing, decoderVars, sessionVars>>

\* the fetch resolves with an ok status and a body
RespondOk(e) ==
  /\ turns[e].phase = "sending"
  /\ turns' = [turns EXCEPT ![e].phase = "streaming"]
  /\ lastStep' = [kind |-> "respond", turn |-> e]
  /\ UNCHANGED <<messages, streaming, reads, session, refreshing, decoderVars,
                 sessionVars>>

\* the fetch rejects, or resolves with a status that is not ok, or without
\* a body: an Error is thrown inside the try
RespondError(e, response) ==
  /\ turns[e].phase = "sending"
  /\ FailTurn(e, ErrorMessage(response))

\* reader.read() resolves with a chunk: one pass of the loop body
ReadChunkOf(e, bytes) ==
  /\ turns[e].phase = "streaming"
  /\ reads < MaxReads
  /\ LET r == ChunkTable[turns[e].decoder, bytes]
         st == ApplyCalls([turn |-> turns[e], msgs |-> messages], r.calls)
     IN /\ turns' = [turns EXCEPT ![e] =
                       [st.turn EXCEPT !.decoder = [pending |-> r.pending,
                                                    buffer |-> r.buffer]]]
        /\ messages' = st.msgs
  /\ reads' = reads + 1
  /\ lastStep' = [kind |-> "chunk", turn |-> e, bytes |-> bytes]
  /\ UNCHANGED <<streaming, session, refreshing, decoderVars, sessionVars>>

\* the test reads the view's session state as it is when the callback runs
RefreshesOnLiveTitle(e) == IsSentinel(session)

\* the test of the completion callback: whether it goes on to
\* refreshSessionInfo() and fetchSessions().  It reads `session` of the
\* closure of the handleSendMessage call
RefreshesOn(e) == IsSentinel(turns[e].session)

\* the completion callback leaves the streaming indicator as it is
ReadDoneOfKeepsFlag(e) ==
  /\ turns[e].phase = "streaming"
  /\ streaming' = streaming
  /\ messages' = FinalizeLast(messages)
  /\ turns' = [turns EXCEPT ![e].phase = "completed",
                            ![e].readerDone = TRUE,
                            ![e].finishCalls = @ + 1]
  /\ lastStep' = [kind |-> "finish", turn |-> e]
  /\ UNCHANGED <<reads, session, refreshing, decoderVars, sessionVars>>

\* what is left in the buffer is dispatched as a last frame before the
\* completion callback
ReadDoneOfFlushes(e) ==
  /\ turns[e].phase = "streaming"
  /\ streaming' = FALSE
  /\ LET r == ProcessChunk(turns[e].decoder, FrameDelimiter)
         st == ApplyCalls([turn |-> turns[e], msgs |-> messages], r.calls)
     IN /\ messages' = FinalizeLast(st.msgs)
        /\ turns' = [turns EXCEPT ![e] =
                       [st.turn EXCEPT !.phase = "completed",
                                       !.readerDone = TRUE,
                                       !.finishCalls = @ + 1]]
  /\ lastStep' = [kind |-> "finish", turn |-> e]
  /\ UNCHANGED <<reads, session, refreshing, decoderVars, sessionVars>>

\* reader.read() resolves with done: break, then onFinishCallback().  With
\* a sentinel title the callback starts refreshSessionInfo (a getSession
\* call) and fetchSessions (isLoading, a list call)
ReadDoneOf(e) ==
  /\ turns[e].phase = "streaming"
  /\ streaming' = FALSE
  /\ messages' = FinalizeLast(messages)
  /\ turns' = [turns EXCEPT ![e].phase = "completed",
                            ![e].readerDone = TRUE,
                            ![e].finishCalls = @ + 1]
  /\ lastStep' = [kind |-> "finish", turn |-> e]
  /\ IF RefreshesOn(e)
     THEN /\ refreshing' = refreshing + 1
          /\ isLoading' = TRUE
          /\ requests' = Append(requests, NewCall("list", 0))
          /\ lastCall' = [kind |-> "issue", call |-> Len(requests) + 1]
     ELSE UNCHANGED <<refreshing, isLoading, requests, lastCall>>
  /\ UNCHANGED <<reads, session, sessions, server, clock, auth, decoderVars>>

\* the completion callback runs on the failure path too, as from a finally
ReadThrowFinishes(e) ==
  /\ turns[e].phase = "streaming"
  /\ streaming' = FALSE
  /\ messages' = RollbackLast(FinalizeLast(messages))
  /\ turns' = [turns EXCEPT ![e] =
                 [Failed(@, NetworkErrorMessage) EXCEPT !.finishCalls = @ + 1]]
  /\ lastStep' = [kind |-> "fail", turn |-> e]
  /\ UNCHANGED <<reads, session, refreshing, decoderVars, sessionVars>>

\* reader.read() rejects
ReadThrowOf(e) ==
  /\ turns[e].phase = "streaming"
  /\ FailTurn(e, NetworkErrorMessage)

\* the failure of the fetch itself
TransportFailures == {Rejected}

Next ==
  \/ \E input \in Questions : Send(input)
  \/ Stop
  \/ \E e \in 1..Len(turns) : RespondOk(e)
  \/ \E e \in 1..Len(turns) : \E response \in TransportFailures : RespondError(e, response)
  \/ \E e \in 1..Len(turns) : \E bytes \in ChatChunks : ReadChunkOf(e, bytes)
  \/ \E e \in 1..Len(turns) : ReadDoneOf(e)
  \/ \E e \in 1..Len(turns) : ReadThrowOf(e)

Init ==
  /\ InitChat
  /\ IdleDecoder
  /\ InitSessions

Spec == Init /\ [][Next]_vars

\* ------------------------------------------------------------------------
\* The session list: useChatStore and the handlers that call it
\* ------------------------------------------------------------------------
\* addSession
addSessionAtEnd(list, created) == Append(list, created)

addSession(list, created) == <<created>> \o list

\* set({ sessions: data }) keeps what the list held and adds the data
setSessionsMerged(list, data) ==
  data \o SelectSeq(list, LAMBDA x : \A i \in 1..Len(data) : data[i].id # x.id)

\* fetchSessions: set({ sessions: data })
setSessions(list, data) == data

\* the filter keeps the entry it should drop
removeSessionInverted(list, sessionId) == SelectSeq(list, LAMBDA x : x.id = sessionId)

\* removeSession
removeSession(list, sessionId) == SelectSeq(list, LAMBDA x : x.id # sessionId)

\* { ...s, ...updates }: updates is a record of some of the fields of s
Merge(x, updates) ==
  [f \in DOMAIN x |-> IF f \in DOMAIN updates THEN updates[f] ELSE x[f]]

\* the updates are merged into every entry, whatever its id
updateSessionInListAll(list, sessionId, updates) ==
  [i \in 1..Len(list) |-> Merge(list[i], updates)]

\* updateSessionInList
updateSessionInList(list, sessionId, updates) ==
  [i \in 1..Len(list) |->
     IF list[i].id = sessionId THEN Merge(list[i], updates) ELSE list[i]]

\* the values a settings form submits
FormValues == [title |-> "Renamed", icon |-> "star", top_k |-> 5]

Ids(list) == {list[i].id : i \in 1..Len(list)}

Issue(op, id) ==
  /\ Len(requests) < MaxCalls
  /\ requests' = Append(requests, NewCall(op, id))
  /\ lastCall' = [kind |-> "issue", call |-> Len(requests) + 1]
  /\ UNCHANGED <<server, clock, auth>>

\* fetchSessions up to the await
FetchIssue ==
  /\ Issue("list", 0)
  /\ isLoading' = TRUE
  /\ UNCHANGED <<sessions, decoderVars, chatVars>>

\* handleCreateSession up to the await
CreateIssue ==
  /\ Issue("create", 0)
  /\ UNCHANGED <<sessions, isLoading, decoderVars, chatVars>>

\* the list is edited before the answer
DeleteIssueOptimistic(id) ==
  /\ id \in Ids(sessions)
  /\ Issue("delete", id)
  /\ sessions' = removeSession(sessions, id)
  /\ UNCHANGED <<isLoading, decoderVars, chatVars>>

\* handleDeleteSession up to the await, on an entry the sidebar shows
DeleteIssue(id) ==
  /\ id \in Ids(sessions)
  /\ Issue("delete", id)
  /\ UNCHANGED <<sessions, isLoading, decoderVars, chatVars>>

\* ChatSettings.onSubmit up to the await, for the session of the open page
PatchIssue(id) ==
  /\ id \in Ids(sessions) \cup Ids(server)
  /\ Issue("patch", id)
  /\ UNCHANGED <<sessions, isLoading, decoderVars, chatVars>>

\* the collection without id, and with a record put first
Without(list, id) == SelectSeq(list, LAMBDA x : x.id # id)
Found(list, id) == list[CHOOSE i \in 1..Len(list) : list[i].id = id]

\* the collaborator handles request c.  It answers an error when told to
\* (reject) or when the id is unknown; `lost` is an answer that does not
\* reach the client, which then sees a failure.
ServerHandle(c, reject, lost) ==
  /\ requests[c].stage = "sent"
  /\ LET r == requests[c]
         known == r.id \in Ids(server)
         fails == reject \/ (r.op \in {"delete", "patch"} /\ ~known)
         now == clock + 1
         created == [id |-> now, title |-> "New Chat", icon |-> "message-square",
                     top_k |-> 3, updated_at |-> now]
         patched == [Merge(Found(server, r.id), FormValues) EXCEPT !.updated_at = now]
     IN /\ server' = IF fails \/ r.op = "list" THEN server
                     ELSE IF r.op = "create" THEN <<created>> \o server
                     ELSE IF r.op = "delete" THEN Without(server, r.id)
                     ELSE <<patched>> \o Without(server, r.id)
        /\ clock' = IF fails \/ r.op \in {"list", "delete"} THEN clock ELSE now
        /\ requests' = [requests EXCEPT ![c] =
                       [@ EXCEPT !.stage = "answered",
                                 !.ok = ~fails /\ ~lost,
                                 !.one = IF fails THEN NoSession
                                         ELSE IF r.op = "create" THEN created
                                         ELSE IF r.op = "patch" THEN patched
                                         ELSE NoSession,
                                 !.many = IF ~fails /\ r.op = "list" THEN server ELSE <<>>]]
  /\ lastCall' = [kind |-> "server", call |-> c]
  /\ UNCHANGED <<sessions, isLoading, auth, decoderVars, chatVars>>

\* the awaited call of request c settles and the rest of its handler runs:
\* fetchSessions (try / catch / finally), handleCreateSession,
\* handleDeleteSession, ChatSettings.onSubmit
Settle(c) ==
  /\ requests[c].stage = "answered"
  /\ LET r == requests[c] IN
     /\ sessions' =
          IF ~r.ok THEN sessions
          ELSE IF r.op = "list" THEN setSessions(sessions, r.many)
          ELSE IF r.op = "create" THEN addSession(sessions, r.one)
          ELSE IF r.op = "delete" THEN removeSession(sessions, r.id)
          ELSE updateSessionInList(sessions, r.id,
                 [title |-> r.one.title, icon |-> r.one.icon,
                  updated_at |-> r.one.updated_at])
     /\ isLoading' = IF r.op = "list" THEN FALSE ELSE isLoading
  /\ requests' = [requests EXCEPT ![c].stage = "done"]
  /\ lastCall' = [kind |-> "settle", call |-> c]
  /\ UNCHANGED <<server, clock, auth, decoderVars, chatVars>>

NextSessions ==
  \/ FetchIssue
  \/ CreateIssue
  \/ \E id \in Ids(sessions) : DeleteIssue(id)
  \/ \E id \in Ids(sessions) \cup Ids(server) : PatchIssue(id)
  \/ \E c \in 1..Len(requests) : \E reject, lost \in BOOLEAN : ServerHandle(c, reject, lost)
  \/ \E c \in 1..Len(requests) : Settle(c)

InitList ==
  /\ InitSessions
  /\ IdleDecoder
  /\ InitChat

SpecSessions == InitList /\ [][NextSessions]_vars

\* C9: a step changes the local list only when it settles a request that
\* the collaborator answered with success; issuing a create, remove or
\* patch, the collaborator's handling of it, and its failure leave the list
\* as it was.
ConfirmThenApply ==
  [][/\ sessions' # sessions =>
          /\ lastCall'.kind = "settle"
          /\ requests[lastCall'.call].stage = "answered"
          /\ requests[lastCall'.call].ok
     /\ (lastCall'.kind = "settle" /\ ~requests[lastCall'.call].ok) =>
          sessions' = sessions]_vars

\* a create was confirmed and applied, a remove or patch has failed, and a
\* further create, remove or patch is in flight
ConfirmWitness ==
  /\ sessions # <<>>
  /\ \E c \in 1..Len(requests) :
       requests[c].stage = "done" /\ requests[c].ok /\ requests[c].op = "create"
  /\ \E c \in 1..Len(requests) :
       requests[c].stage = "done" /\ ~requests[c].ok /\ requests[c].op \in {"delete", "patch"}
  /\ \E c \in 1..Len(requests) :
       requests[c].stage # "done" /\ requests[c].op # "list"

\* C10: the step that settles a confirmed create puts the created session
\* at index 0 and leaves the former entries after it in their order.
CreatePrepends ==
  [][(/\ lastCall'.kind = "settle"
      /\ requests[lastCall'.call].stage = "answered"
      /\ requests[lastCall'.call].op = "create"
      /\ requests[lastCall'.call].ok) =>
        /\ sessions'[1] = requests[lastCall'.call].one
        /\ Tail(sessions') = sessions]_vars

\* a confirmed create was applied to a list that already had an entry
CreateWitness ==
  /\ lastCall.kind = "settle"
  /\ requests[lastCall.call].op = "create"
  /\ requests[lastCall.call].ok
  /\ Len(sessions) >= 2
  /\ sessions[1] = requests[lastCall.call].one

\* the request that the step settles, when the step is the rest of a handler
\* after its awaited call
SettledCall == requests[lastCall'.call]
Settles(op) ==
  /\ lastCall'.kind = "settle"
  /\ SettledCall.stage = "answered"
  /\ SettledCall.op = op

\* C11: the step that settles a successful list() makes the local list the
\* fetched collection and nothing else; the step that settles a failed
\* list(), and the step that issues a list(), leave the local list as it was.
FetchReplacesOrKeeps ==
  [][/\ (Settles("list") /\ SettledCall.ok) => sessions' = SettledCall.many
     /\ (Settles("list") /\ ~SettledCall.ok) => sessions' = sessions
     /\ (lastCall'.kind = "issue" /\ requests'[lastCall'.call].op = "list") =>
          sessions' = sessions]_vars

\* a list() has failed, and a later successful list() was applied to a list
\* that held a created session which the fetched collection does not have
FetchWitness ==
  /\ lastCall.kind = "settle"
  /\ requests[lastCall.call].op = "list"
  /\ requests[lastCall.call].ok
  /\ sessions = requests[lastCall.call].many
  /\ \E c \in 1..Len(requests) :
       requests[c].op = "list" /\ requests[c].stage = "done" /\ ~requests[c].ok
  /\ \E c \in 1..Len(requests) :
       /\ requests[c].op = "create" /\ requests[c].stage = "done" /\ requests[c].ok
       /\ requests[c].one.id \notin Ids(sessions)

PatchMergesInPlace ==
  [][(Settles("patch") /\ SettledCall.ok) =>
       /\ Len(sessions') = Len(sessions)
       /\ \A i \in 1..Len(sessions) :
            IF sessions[i].id = SettledCall.id
            THEN /\ sessions'[i].title = SettledCall.one.title
                 /\ sessions'[i].icon = SettledCall.one.icon
                 /\ sessions'[i].updated_at = SettledCall.one.updated_at
                 /\ sessions'[i].id = sessions[i].id
                 /\ sessions'[i].top_k = sessions[i].top_k
            ELSE sessions'[i] = sessions[i]]_vars

\* a confirmed patch was applied to a list of two entries: one carries the
\* submitted title and its former top_k, the other is as it was created
PatchWitness ==
  /\ lastCall.kind = "settle"
  /\ requests[lastCall.call].op = "patch"
  /\ requests[lastCall.call].ok
  /\ Len(sessions) >= 2
  /\ \E i, j \in 1..Len(sessions) :
       /\ sessions[i].id = requests[lastCall.call].id
       /\ sessions[i].title = FormValues.title
       /\ sessions[i].top_k # FormValues.top_k
       /\ sessions[j].id # requests[lastCall.call].id
       /\ sessions[j].title # FormValues.title

\* C14: the local list is ordered most-recent-first: the updated
\* timestamps do not increase from index 0 on.
SessionsMostRecentFirst ==
  \A i, j \in 1..Len(sessions) :
    i < j => sessions[i].updated_at >= sessions[j].updated_at

\* ------------------------------------------------------------------------
\* The read loop alone (specification SpecDecoder)
\* ------------------------------------------------------------------------
InitDecoder ==
  /\ wire \in DecoderWires
  /\ consumed = 0
  /\ decoder = NewDecoder
  /\ emitted = <<>>
  /\ called = <<>>
  /\ cutInside = FALSE
  /\ ended = FALSE
  /\ InitChat
  /\ InitSessions

\* reader.read() returns the next n bytes; the loop body runs on them
ReadChunk(n) ==
  /\ ~ended
  /\ consumed + n <= Len(wire)
  /\ LET r == ProcessChunk(decoder, SubSeq(wire, consumed + 1, consumed + n)) IN
     /\ decoder' = [pending |-> r.pending, buffer |-> r.buffer]
     /\ emitted' = emitted \o r.frames
     /\ called' = called \o r.calls
     /\ cutInside' = (cutInside \/ r.pending \/ r.buffer # <<>>)
  /\ consumed' = consumed + n
  /\ UNCHANGED <<wire, ended, chatVars, sessionVars>>

\* reader.read() returns done: the loop is left, the buffer is dropped
ReadEnd ==
  /\ ~ended
  /\ consumed = Len(wire)
  /\ ended' = TRUE
  /\ UNCHANGED <<wire, consumed, decoder, emitted, called, cutInside, chatVars, sessionVars>>

NextDecoder ==
  \/ \E n \in 1..Len(wire) : ReadChunk(n)
  \/ ReadEnd

SpecDecoder == InitDecoder /\ [][NextDecoder]_vars

\* the read loop run on the whole of `bytes` delivered as one chunk
OneChunk(bytes) == ProcessChunk(NewDecoder, bytes)

\* C1: however the body is cut into chunks, the frames emitted for the part
\* consumed so far are those of that part delivered as one single chunk;
\* at the end of the stream they are those of the whole body as one chunk.
ChunkingInvariant ==
  /\ emitted = OneChunk(SubSeq(wire, 1, consumed)).frames
  /\ ended => emitted = OneChunk(wire).frames

\* a body of several frames, cut inside a frame, read to its end
ChunkingWitness ==
  /\ ended
  /\ cutInside
  /\ Len(emitted) >= 2
  /\ wire \in Bodies(WellFormedFrames, 2)

\* the message frames matched so far and the content callbacks invoked
MessageFrames == SelectSeq(emitted, LAMBDA f : f.event = MessageEvent)
ContentCalls == SelectSeq(called, LAMBDA c : c.cb = "message")

\* C17: the content callback is invoked once for every message frame, in
\* order, with a string: the text the payload decodes to when it is JSON,
\* else the payload as it stands.
ContentCallbackGetsString ==
  /\ Len(ContentCalls) = Len(MessageFrames)
  /\ \A i \in 1..Len(ContentCalls) :
       LET v == JSONParse(MessageFrames[i].data) IN
       /\ ContentCalls[i].val.t = "string"
       /\ ContentCalls[i].val.s = (IF v.ok THEN v.s ELSE MessageFrames[i].data)

\* ------------------------------------------------------------------------
\* Properties of the session view (specification Spec)
\* ------------------------------------------------------------------------
Active(e) == turns[e].phase \in {"sending", "streaming"}

\* the positions in the message list of the placeholder that turn e created
PlaceholderOf(e) ==
  {i \in 1..Len(messages) : messages[i].role = "assistant" /\ messages[i].turn = e}

UserRecordOf(e) ==
  {i \in 1..Len(messages) : messages[i].role = "user" /\ messages[i].turn = e}

\* C2: when an exchange completes, the content of the assistant record of
\* its turn is the concatenation, in delivery order, of the fragments its
\* message frames carried.
FinalContentIsConcatenation ==
  \A e \in 1..Len(turns) :
    lastStep = [kind |-> "finish", turn |-> e] =>
      /\ PlaceholderOf(e) # {}
      /\ \A i \in PlaceholderOf(e) : messages[i].content = Concat(turns[e].fragments)

\* C3: when an exchange fails after a content fragment was applied, the
\* partial content is still in the list and the record's in-progress flag
\* is cleared.
PartialContentKeptAndFlagCleared ==
  \A e \in 1..Len(turns) :
    (lastStep = [kind |-> "fail", turn |-> e] /\ turns[e].fragments # <<>>
       /\ turns[e].assistantMsgContent # <<>>) =>
      /\ PlaceholderOf(e) # {}
      /\ \A i \in PlaceholderOf(e) :
           /\ messages[i].content = turns[e].assistantMsgContent
           /\ ~messages[i].isStreaming

\* C4: when an exchange fails while no content has accumulated, its
\* placeholder is absent from the list and its user record is present.
EmptyPlaceholderRolledBack ==
  \A e \in 1..Len(turns) :
    (lastStep = [kind |-> "fail", turn |-> e]
       /\ turns[e].assistantMsgContent = <<>>) =>
      /\ PlaceholderOf(e) = {}
      /\ UserRecordOf(e) # {}

\* C5: every active exchange has exactly one in-progress record, its own
\* placeholder, and no record is in-progress without an active exchange.
OneInProgressPerActiveExchange ==
  /\ \A e \in 1..Len(turns) :
       Active(e) =>
         Cardinality({i \in 1..Len(messages) :
                        messages[i].isStreaming /\ messages[i].turn = e}) = 1
  /\ \A i \in 1..Len(messages) :
       messages[i].isStreaming => Active(messages[i].turn)

\* C6: when an exchange completes, the in-progress flag of the placeholder
\* created for that exchange is cleared.
CompletionClearsOwnPlaceholder ==
  \A e \in 1..Len(turns) :
    lastStep = [kind |-> "finish", turn |-> e] =>
      /\ PlaceholderOf(e) # {}
      /\ \A i \in PlaceholderOf(e) : ~messages[i].isStreaming

\* C7: the completion hook has fired, and the exchange is completed, exactly
\* when its reader has reported end-of-stream; it fires once, never on a
\* frame and never together with the error hook.
FinishOnlyAtReaderDone ==
  \A e \in 1..Len(turns) :
    /\ turns[e].finishCalls = (IF turns[e].readerDone THEN 1 ELSE 0)
    /\ (turns[e].phase = "completed") <=> turns[e].readerDone
    /\ turns[e].readerDone => turns[e].errorCalls = 0

\* an exchange whose message and usage frames were dispatched while it was
\* streaming, and whose reader then reported done
FinishWitness ==
  \E e \in 1..Len(turns) :
    /\ turns[e].readerDone
    /\ turns[e].finishCalls = 1
    /\ turns[e].fragments # <<>>
    /\ turns[e].tokenUsage > 0

\* C8: a step never changes the content of, or removes, an assistant
\* record whose in-progress flag is already cleared.
FinalizedContentImmutable ==
  [][\A i \in 1..Len(messages) :
       (messages[i].role = "assistant" /\ ~messages[i].isStreaming) =>
         /\ i <= Len(messages')
         /\ messages'[i].content = messages[i].content]_vars

\* the callbacks of one kind among those a chunk invoked
CallsOf(calls, cb) == SelectSeq(calls, LAMBDA c : c.cb = cb)

\* the count a usage payload carries: total_tokens, or the sum of the two
\* component counts when total_tokens is absent
CarriedTotal(usage) ==
  IF Property(usage, TotalTokensKey) # Undefined
  THEN Property(usage, TotalTokensKey)
  ELSE AddJS(Property(usage, InputTokensKey), Property(usage, OutputTokensKey))

IsPrefix(a, b) == Len(a) <= Len(b) /\ SubSeq(b, 1, Len(a)) = a

\* C18: when a chunk of an exchange carried sources (usage) frames, the
\* exchange's in-progress record then holds the citations (the count) of
\* the last of them, whatever it held before; and a chunk that carried
\* content frames only extends the text the records held.
LatestValuesReplace ==
  [][\A e \in 1..Len(turns) : \A bytes \in ChatChunks :
       ReadChunkOf(e, bytes) =>
         LET calls == ChunkTable[turns[e].decoder, bytes].calls
             src == CallsOf(calls, "sources")
             use == CallsOf(calls, "usage")
         IN /\ \A i \in PlaceholderOf(e) :
                 /\ src # <<>> => messages'[i].sources = src[Len(src)].val
                 /\ use # <<>> =>
                      messages'[i].token_usage = CarriedTotal(use[Len(use)].val)
            /\ CallsOf(calls, "message") # <<>> =>
                 \A j \in 1..Len(messages) :
                   IsPrefix(messages[j].content, messages'[j].content)]_vars

\* C19: after a usage frame of an exchange the count on the exchange's
\* record is the payload's total_tokens when the payload has one, and
\* input_tokens + output_tokens when it has none.
UsageCountIsTotalOrSum ==
  [][\A e \in 1..Len(turns) : \A bytes \in ChatChunks :
       ReadChunkOf(e, bytes) =>
         LET use == CallsOf(ChunkTable[turns[e].decoder, bytes].calls, "usage") IN
         use # <<>> =>
           LET usage == use[Len(use)].val
               total == Property(usage, TotalTokensKey)
           IN \A i \in PlaceholderOf(e) :
                messages'[i].token_usage =
                  (IF total # Undefined THEN total
                   ELSE Property(usage, InputTokensKey)
                          + Property(usage, OutputTokensKey))]_vars

\* C20: when an exchange that received content frames and no sources frame
\* completes, its record has the concatenated content, the in-progress
\* flag cleared and no citations field (not an empty list).  The sources
\* frames of the model carry a non-empty list, so the exchange received
\* none exactly when its assistantSources is still the empty list.
NoSourcesLeavesCitationsUnset ==
  \A e \in 1..Len(turns) :
    (lastStep = [kind |-> "finish", turn |-> e] /\ turns[e].fragments # <<>>
       /\ turns[e].assistantSources = JArray(<<>>)) =>
      /\ PlaceholderOf(e) # {}
      /\ \A i \in PlaceholderOf(e) :
           /\ messages[i].content = Concat(turns[e].fragments)
           /\ ~messages[i].isStreaming
           /\ messages[i].sources = JUndefined

\* C15: once stop was invoked during an exchange, no chunk that this
\* exchange's reader returns afterwards changes the message list, whatever
\* content, sources or usage frames it carries.
StoppedFramesChangeNothing ==
  [][\A e \in 1..Len(turns) :
       (turns[e].stopped /\ lastStep'.kind = "chunk" /\ lastStep'.turn = e
          /\ reads' = reads + 1) =>
         messages' = messages]_vars

\* ------------------------------------------------------------------------
\* The session view when every awaited promise settles (specification
\* SpecSettling): the fetch and each reader.read() of a call in flight
\* eventually resolve or reject.  The bodies carry content and citation
\* frames, one frame a chunk.
\* ------------------------------------------------------------------------
SettlingChunks == {MessageJsonFrame, SourcesFrame}

\* the awaited promise of exchange e settles and its continuation runs
Progress(e) ==
  /\ e \in 1..Len(turns)
  /\ \/ RespondOk(e)
     \/ \E response \in TransportFailures : RespondError(e, response)
     \/ \E bytes \in SettlingChunks : ReadChunkOf(e, bytes)
     \/ ReadDoneOf(e)
     \/ ReadThrowOf(e)

NextSettling ==
  \/ \E input \in Questions : Send(input)
  \/ Stop
  \/ \E e \in 1..MaxTurns : Progress(e)

SpecSettling ==
  Init /\ [][NextSettling]_vars /\ \A e \in 1..MaxTurns : WF_vars(Progress(e))

Stopped(e) == e \in 1..Len(turns) /\ turns[e].stopped

\* the completion hook or the error hook of exchange e has fired
Hooked(e) ==
  /\ e \in 1..Len(turns)
  /\ turns[e].phase \in {"completed", "failed"}
  /\ turns[e].finishCalls + turns[e].errorCalls = 1

\* C16: stop does not end an exchange.  A stopped exchange stays in flight
\* until its fetch fails, its reader reports end-of-stream or a read
\* throws; until then its next read is still awaited; and its completion
\* or error hook fires afterwards.
StopDoesNotTerminate ==
  /\ [][\A e \in 1..Len(turns) :
          (turns[e].stopped /\ Active(e) /\ turns'[e].phase # turns[e].phase) =>
            \/ lastStep' = [kind |-> "respond", turn |-> e]
            \/ lastStep' = [kind |-> "fail", turn |-> e]
            \/ lastStep' = [kind |-> "finish", turn |-> e]]_vars
  /\ [][lastStep'.kind = "stop" =>
          \A e \in 1..Len(turns) : turns'[e].phase = turns[e].phase]_vars
  /\ \A e \in 1..MaxTurns : Stopped(e) ~> Hooked(e)

\* an exchange was stopped, and later its reader reported end-of-stream and
\* its completion hook fired, after a content frame was dispatched
StopWitness ==
  \E e \in 1..Len(turns) :
    /\ turns[e].stopped
    /\ turns[e].readerDone
    /\ turns[e].finishCalls = 1
    /\ turns[e].fragments # <<>>

\* ------------------------------------------------------------------------
\* Malformed, undecodable and unknown frames
\* ------------------------------------------------------------------------
\* the callback that a valid frame of the interspersed bodies invokes
CallbackOf(frame) ==
  [cb |-> IF frame.event = MessageEvent THEN "message" ELSE "sources",
   val |-> JSONParse(frame.data)]

\* C21: for a body with malformed fragments among valid frames, the frames
\* dispatched so far are the first of the body's valid frames, in order,
\* each with its event name and payload and one callback each; at the end
\* of the stream they are all of them.  No fragment adds a frame or a
\* callback, and the loop reads the body to its end.
MalformedFragmentsDropped ==
  \A body \in InterspersedBodies :
    wire = BodyText(body) =>
      /\ IsPrefix(emitted, BodyFrames(body))
      /\ called = [i \in 1..Len(emitted) |-> CallbackOf(emitted[i])]
      /\ ended => emitted = BodyFrames(body)

\* a body valid frame, malformed fragment, valid frame was read to its
\* end in chunks that cut a piece, and both valid frames were dispatched
MalformedWitness ==
  /\ ended
  /\ cutInside
  /\ \E body \in InterspersedBodies :
       /\ Len(body) = 3
       /\ wire = BodyText(body)
       /\ emitted = BodyFrames(body)
  /\ Len(called) = 2

UndecodableFrames == {SourcesUndecodableFrame, UsageUndecodableFrame}

\* C22: a sources or usage frame whose payload does not decode invokes no
\* callback, leaves the message list and the exchange's state (its locals,
\* its decoder, its phase) as they were, so that what follows is processed
\* and completed as without it.
UndecodableFrameIgnored ==
  [][\A e \in 1..Len(turns) : \A bytes \in UndecodableFrames :
       (lastStep' = [kind |-> "chunk", turn |-> e, bytes |-> bytes]
          /\ reads' = reads + 1 /\ turns[e].decoder = NewDecoder) =>
         /\ ChunkTable[NewDecoder, bytes].calls = <<>>
         /\ messages' = messages
         /\ turns' = turns
         /\ streaming' = streaming]_vars

\* an undecodable frame has just been read by an exchange that had already
\* received content, and the exchange goes on
UndecodableWitness ==
  \E e \in 1..Len(turns) :
    /\ lastStep.kind = "chunk"
    /\ lastStep.turn = e
    /\ lastStep.bytes \in UndecodableFrames
    /\ turns[e].phase = "streaming"
    /\ turns[e].decoder = NewDecoder
    /\ turns[e].fragments # <<>>
    /\ messages[Len(messages)].content = turns[e].assistantMsgContent

\* C23: a frame with an event name that is not known invokes no callback
\* and changes neither the message list nor the exchange's state, its
\* decoder included.
UnknownFrameIgnored ==
  [][\A e \in 1..Len(turns) :
       (lastStep' = [kind |-> "chunk", turn |-> e, bytes |-> UnknownFrame]
          /\ reads' = reads + 1 /\ turns[e].decoder = NewDecoder) =>
         /\ ChunkTable[NewDecoder, UnknownFrame].frames # <<>>
         /\ ChunkTable[NewDecoder, UnknownFrame].calls = <<>>
         /\ messages' = messages
         /\ turns' = turns
         /\ streaming' = streaming]_vars

\* a frame of an unknown event has just been read by an exchange that had
\* already received content and citations
UnknownWitness ==
  \E e \in 1..Len(turns) :
    /\ lastStep = [kind |-> "chunk", turn |-> e, bytes |-> UnknownFrame]
    /\ turns[e].phase = "streaming"
    /\ turns[e].decoder = NewDecoder
    /\ turns[e].fragments # <<>>
    /\ messages[Len(messages)].role = "assistant"
    /\ messages[Len(messages)].content # <<>>

\* ------------------------------------------------------------------------
\* The failures of an exchange (specification SpecOutcome): every way the
\* fetch can fail and the toast of the error callback.  The bodies carry
\* content frames.
\* ------------------------------------------------------------------------
OutcomeChunks == {MessageJsonFrame}

NextOutcome ==
  \/ \E input \in Questions : Send(input)
  \/ Stop
  \/ \E e \in 1..Len(turns) : RespondOk(e)
  \/ \E e \in 1..Len(turns) : \E response \in FailedResponses : RespondError(e, response)
  \/ \E e \in 1..Len(turns) : \E bytes \in OutcomeChunks : ReadChunkOf(e, bytes)
  \/ \E e \in 1..Len(turns) : ReadDoneOf(e)
  \/ \E e \in 1..Len(turns) : ReadThrowOf(e)

SpecOutcome == Init /\ [][NextOutcome]_vars

\* C24: a response whose status is not ok sends the exchange from sending
\* straight to failed with one call of the error hook and none of the
\* content, citation, usage or completion hooks; the error's message is the
\* detail of the body when the body is JSON with a detail that is not
\* empty, and "API Error: " with the status text otherwise; and a failed
\* exchange changes no more.
NotOkFailsWithDetail ==
  [][\A e \in 1..Len(turns) :
       /\ \A response \in NotOkResponses :
            (turns[e].phase = "sending" /\ RespondError(e, response)) =>
              /\ turns'[e].phase = "failed"
              /\ turns'[e].errorCalls = 1
              /\ turns'[e].finishCalls = 0
              /\ turns'[e].fragments = <<>>
              /\ turns'[e].assistantSources = JArray(<<>>)
              /\ turns'[e].tokenUsage = 0
              /\ \A d \in Details :
                   response.body = DetailBody(d) => turns'[e].errMsg = d
              /\ response.body \in {DetailBody(<<>>), OtherBody, HtmlBody} =>
                   turns'[e].errMsg = ApiErrorPrefix \o response.statusText
       /\ turns[e].phase = "failed" => turns'[e] = turns[e]]_vars

\* one exchange has failed with the detail of its error body, another with
\* the message made of the status text
NotOkWitness ==
  \E e, f \in 1..Len(turns) :
    /\ turns[e].phase = "failed"
    /\ turns[e].errMsg = NoSessionDetail
    /\ turns[e].errorCalls = 1
    /\ turns[f].phase = "failed"
    /\ turns[f].errMsg = ApiErrorPrefix \o TooManyRequests
    /\ turns[f].errorCalls = 1
    /\ \A i \in 1..Len(messages) : messages[i].role = "user"

\* the error texts of the model that hold a quota phrase
QuotaTexts == {RequestLimitDetail, TokenQuotaDetail}

\* C25: the error callback shows one toast: the quota toast when the
\* error's message holds "Daily request limit" or "Daily token quota", the
\* failure toast otherwise; in both cases it removes the last record of the
\* list when that is an assistant record without content, and nothing else.
FailureIsQuotaOrGeneric ==
  [][\A e \in 1..Len(turns) :
       (lastStep' = [kind |-> "fail", turn |-> e] /\ turns[e].phase # "failed") =>
         /\ turns[e].toasts = <<>>
         /\ Len(turns'[e].toasts) = 1
         /\ turns'[e].toasts[1] =
              IF turns'[e].errMsg \in QuotaTexts THEN QuotaToast ELSE FailureToast
         /\ messages' =
              IF /\ messages[Len(messages)].role = "assistant"
                 /\ messages[Len(messages)].content = <<>>
              THEN SubSeq(messages, 1, Len(messages) - 1)
              ELSE messages]_vars

\* one exchange has failed with a quota message inside a longer text and
\* shown the quota toast, another with a message of the same words in
\* another case and shown the failure toast
QuotaWitness ==
  \E e, f \in 1..Len(turns) :
    /\ turns[e].phase = "failed"
    /\ turns[e].errMsg = TokenQuotaDetail
    /\ turns[e].toasts = <<QuotaToast>>
    /\ turns[f].phase = "failed"
    /\ turns[f].errMsg = LowerCaseDetail
    /\ turns[f].toasts = <<FailureToast>>

\* ------------------------------------------------------------------------
\* The refresh after a completion (specification SpecRefresh): the view has
\* loaded its session, or failed to; the settings dialog and the completion
\* callback reload it.  The bodies carry no frame.
\* ------------------------------------------------------------------------
Titles == {EnglishSentinel, ChineseSentinel, "Topic"}

\* initSession has settled: setSession(sessData), or the catch
InitRefresh ==
  /\ messages = <<>>
  /\ streaming = FALSE
  /\ turns = <<>>
  /\ reads = 0
  /\ lastStep = [kind |-> "init", turn |-> 0]
  /\ session \in {NullSession} \cup {LoadedSession(title) : title \in Titles}
  /\ refreshing = 0
  /\ IdleDecoder
  /\ InitSessions

\* ChatSettings saved its form: onUpdate, which is refreshSessionInfo, up to
\* the await of getSession
SettingsSaved ==
  /\ session.loaded
  /\ refreshing < MaxTurns
  /\ refreshing' = refreshing + 1
  /\ lastStep' = [kind |-> "settings", turn |-> 0]
  /\ UNCHANGED <<messages, streaming, turns, reads, session, decoderVars, sessionVars>>

\* refreshSessionInfo after the await: setSession(data)
RefreshSettled(title) ==
  /\ refreshing > 0
  /\ refreshing' = refreshing - 1
  /\ session' = LoadedSession(title)
  /\ lastStep' = [kind |-> "refreshed", turn |-> 0]
  /\ UNCHANGED <<messages, streaming, turns, reads, decoderVars, sessionVars>>

\* getSession rejects: catch(e) {}
RefreshRejected ==
  /\ refreshing > 0
  /\ refreshing' = refreshing - 1
  /\ lastStep' = [kind |-> "unrefreshed", turn |-> 0]
  /\ UNCHANGED <<messages, streaming, turns, reads, session, decoderVars, sessionVars>>

NextRefresh ==
  \/ \E input \in Questions : Send(input)
  \/ Stop
  \/ \E e \in 1..Len(turns) : RespondOk(e)
  \/ \E e \in 1..Len(turns) : \E response \in TransportFailures : RespondError(e, response)
  \/ \E e \in 1..Len(turns) : ReadDoneOf(e)
  \/ \E e \in 1..Len(turns) : ReadThrowOf(e)
  \/ SettingsSaved
  \/ \E title \in Titles : RefreshSettled(title)
  \/ RefreshRejected

SpecRefresh == InitRefresh /\ [][NextRefresh]_vars

\* the step starts refreshSessionInfo and fetchSessions
StartsRefresh ==
  /\ refreshing' = refreshing + 1
  /\ isLoading'
  /\ requests' = Append(requests, NewCall("list", 0))

StartsNoRefresh ==
  /\ refreshing' = refreshing
  /\ requests' = requests
  /\ isLoading' = isLoading

\* C26 as stated: the completion of an exchange starts the two refreshes
\* exactly when the view's session bears a sentinel title at that moment;
\* a failure starts none.
RefreshIffSentinelAtCompletion ==
  [][\A e \in 1..Len(turns) :
       /\ lastStep' = [kind |-> "finish", turn |-> e] /\ turns[e].phase = "streaming" =>
            IF IsSentinel(session) THEN StartsRefresh ELSE StartsNoRefresh
       /\ lastStep' = [kind |-> "fail", turn |-> e] /\ turns[e].phase # "failed" =>
            StartsNoRefresh]_vars

\* C26 amended: the completion of an exchange starts the two refreshes
\* exactly when the view's session bore a sentinel title at the moment the
\* turn was sent; a failure starts none.
RefreshIffSentinelWhenSent ==
  [][\A e \in 1..Len(turns) :
       /\ lastStep' = [kind |-> "finish", turn |-> e] /\ turns[e].phase = "streaming" =>
            IF turns[e].session.title \in {EnglishSentinel, ChineseSentinel}
            THEN StartsRefresh ELSE StartsNoRefresh
       /\ lastStep' = [kind |-> "fail", turn |-> e] /\ turns[e].phase # "failed" =>
            StartsNoRefresh]_vars

\* an exchange sent under a sentinel title has just completed and started
\* the refreshes although the session was given a title in between
RefreshWitness ==
  \E e \in 1..Len(turns) :
    /\ lastStep = [kind |-> "finish", turn |-> e]
    /\ turns[e].phase = "completed"
    /\ IsSentinel(turns[e].session)
    /\ session = LoadedSession("Topic")
    /\ refreshing > 0
    /\ isLoading
    /\ requests # <<>>
    /\ requests[Len(requests)] = NewCall("list", 0)

\* ------------------------------------------------------------------------
\* Exchanges of one view that overlap
\* ------------------------------------------------------------------------
\* C27: at most one exchange of the view is in flight: no turn is sent
\* while the fetch or the reader of an earlier one has neither ended nor
\* failed, also after stop.
OneExchangeInFlight ==
  [][\A t \in 1..MaxTurns :
       lastStep' = [kind |-> "send", turn |-> t] /\ Len(turns') = Len(turns) + 1 =>
         \A e \in 1..Len(turns) : ~Active(e)]_vars

\* C28: a step of exchange e that reads a chunk, completes or fails changes
\* or removes no record of the message list other than the placeholder that
\* turn e created.
EffectsOnOwnPlaceholder ==
  [][\A e \in 1..Len(turns) :
       (lastStep'.kind \in {"chunk", "finish", "fail"} /\ lastStep'.turn = e
          /\ turns'[e] # turns[e]) =>
         \A i \in 1..Len(messages) :
           (i > Len(messages') \/ messages'[i] # messages[i]) =>
             i \in PlaceholderOf(e)]_vars

\* ------------------------------------------------------------------------
\* The session list when a list() overlaps other requests
\* ------------------------------------------------------------------------
\* the requests issued after request c whose handlers have already applied
\* a confirmed answer: they were settled while c was in flight
AppliedSince(c) ==
  {d \in (c + 1)..Len(requests) : requests[d].stage = "done" /\ requests[d].ok}

\* C29: the step that settles a list() keeps every session that a create
\* confirmed and applied since the list() was issued has put into the local
\* list, and brings back no session that a remove confirmed and applied
\* since then has taken out.
ListKeepsConfirmedMutations ==
  [][Settles("list") =>
       \A d \in AppliedSince(lastCall'.call) :
         /\ (requests[d].op = "create" /\ requests[d].one.id \in Ids(sessions)) =>
              requests[d].one.id \in Ids(sessions')
         /\ requests[d].op = "delete" => requests[d].id \notin Ids(sessions')]_vars

\* C30: no two entries of the local list bear the same id.
SessionIdsDistinct ==
  \A i, j \in 1..Len(sessions) : i # j => sessions[i].id # sessions[j].id

\* ------------------------------------------------------------------------
\* The end of an exchange
\* ------------------------------------------------------------------------
Ended(e) == turns[e].phase \in {"completed", "failed"}

\* C31: an exchange in flight has invoked neither the completion hook nor
\* the error hook; a completed one has invoked the completion hook once and
\* the error hook never, a failed one the error hook once and the completion
\* hook never; and after either no step invokes a hook of the exchange any
\* more: its fragments, citations, usage and hook counts stay as they are.
ExactlyOneTerminalHook ==
  /\ [](\A e \in 1..Len(turns) :
          /\ Active(e) => turns[e].finishCalls = 0 /\ turns[e].errorCalls = 0
          /\ turns[e].phase = "completed" =>
               turns[e].finishCalls = 1 /\ turns[e].errorCalls = 0
          /\ turns[e].phase = "failed" =>
               turns[e].finishCalls = 0 /\ turns[e].errorCalls = 1
          /\ Active(e) \/ Ended(e))
  /\ [][\A e \in 1..Len(turns) : Ended(e) => turns'[e] = turns[e]]_vars

\* one exchange has completed after content and another, overlapping it,
\* has failed
TerminalHookWitness ==
  \E e, f \in 1..Len(turns) :
    /\ turns[e].phase = "completed"
    /\ turns[e].fragments # <<>>
    /\ turns[e].finishCalls = 1
    /\ turns[f].phase = "failed"
    /\ turns[f].errorCalls = 1
    /\ turns[f].stopped
    /\ reads = MaxReads

Started(e) == e \in 1..Len(turns)

\* C32: when the fetch and every read of a started exchange settle, the
\* exchange reaches completed or failed; it stays in the state it reached;
\* the step that takes it there sets the view's streaming indicator to
\* false, and afterwards the indicator becomes true only when a turn is sent.
ExchangeTerminates ==
  /\ \A e \in 1..MaxTurns : Started(e) ~> (Started(e) /\ Ended(e))
  /\ [][\A e \in 1..Len(turns) :
          /\ Ended(e) => turns'[e].phase = turns[e].phase
          /\ (~Ended(e) /\ turns'[e].phase \in {"completed", "failed"}) =>
               ~streaming']_vars
  /\ [][(~streaming /\ streaming') => lastStep'.kind = "send"]_vars

\* an exchange was sent, then stopped, then read to its end; the indicator
\* is false and a later turn is still in flight
TerminatesWitness ==
  \E e, f \in 1..Len(turns) :
    /\ e < f
    /\ turns[e].phase = "completed"
    /\ turns[e].stopped
    /\ turns[e].fragments # <<>>
    /\ Active(f)
    /\ ~streaming

\* ------------------------------------------------------------------------
\* The loading flag of the session list
\* ------------------------------------------------------------------------
\* the list() calls whose handler has not run to its end
ListsInFlight ==
  {c \in 1..Len(requests) : requests[c].op = "list" /\ requests[c].stage # "done"}

\* C33: the loading flag is true exactly when some list() is in flight.
LoadingIffListInFlight == isLoading <=> ListsInFlight # {}

\* ------------------------------------------------------------------------
\* The records of the message list
\* ------------------------------------------------------------------------
\* C34: the user record of every turn sent so far is in the list, once, as
\* it was created, and the user records stand in the order of their turns:
\* no chunk, completion, failure or stop has changed or removed one.
UserRecordsImmutable ==
  /\ \A t \in 1..Len(turns) :
       \E i \in 1..Len(messages) :
         /\ UserRecordOf(t) = {i}
         /\ \E input \in Questions : messages[i] = UserRecord(input, t)
  /\ \A i, j \in 1..Len(messages) :
       (i < j /\ messages[i].role = "user" /\ messages[j].role = "user") =>
         messages[i].turn < messages[j].turn

\* a content chunk has just been read while the last record of the list is
\* a user record: the placeholder after it was removed by the failure of an
\* overlapping exchange
UserRecordWitness ==
  \E e \in 1..Len(turns) :
    /\ lastStep.kind = "chunk"
    /\ lastStep.turn = e
    /\ turns[e].fragments # <<>>
    /\ messages[Len(messages)].role = "user"
    /\ \E f \in 1..Len(turns) : turns[f].phase = "failed" /\ turns[f].stopped

\* C35: the step that sends a turn leaves the records of the list as they
\* are and puts two records after them: a user record with the question,
\* then an assistant record without content and with the in-progress flag;
\* the exchange it starts is still before its fetch.
SendAppendsTurn ==
  [][\A t \in 1..MaxTurns :
       (lastStep' = [kind |-> "send", turn |-> t] /\ Len(turns') = Len(turns) + 1) =>
         LET n == Len(messages) IN
         /\ Len(messages') = n + 2
         /\ SubSeq(messages', 1, n) = messages
         /\ messages'[n + 1].role = "user"
         /\ messages'[n + 1].content \in Questions
         /\ messages'[n + 1].turn = t
         /\ messages'[n + 2].role = "assistant"
         /\ messages'[n + 2].content = <<>>
         /\ messages'[n + 2].isStreaming
         /\ messages'[n + 2].turn = t
         /\ turns'[t].phase = "sending"
         /\ turns'[t].fragments = <<>>]_vars

\* a second turn has just been sent after a first one that was answered
SendWitness ==
  /\ lastStep = [kind |-> "send", turn |-> 2]
  /\ Len(messages) = 4
  /\ messages[2].role = "assistant"
  /\ messages[2].content # <<>>
  /\ messages[3].role = "user"
  /\ messages[4] = Placeholder(2)
  /\ turns[2].phase = "sending"

\* C36: a step that leaves an in-progress assistant record in the list
\* leaves it with a content that starts with the content it had.
ContentOnlyExtends ==
  [][\A i \in 1..Len(messages) :
       (/\ i <= Len(messages')
        /\ messages[i].role = "assistant"
        /\ messages[i].isStreaming
        /\ messages'[i].turn = messages[i].turn) =>
         IsPrefix(messages[i].content, messages'[i].content)]_vars

\* ------------------------------------------------------------------------
\* Bodies that end inside a frame (specification SpecTail)
\* ------------------------------------------------------------------------
NextTail ==
  \/ \E input \in Questions : Send(input)
  \/ Stop
  \/ \E e \in 1..Len(turns) : RespondOk(e)
  \/ \E e \in 1..Len(turns) : \E bytes \in TailChunks : ReadChunkOf(e, bytes)
  \/ \E e \in 1..Len(turns) : ReadDoneOf(e)

SpecTail == Init /\ [][NextTail]_vars

\* C37: a chunk that brings a pair of lines without the blank line after
\* it makes no callback run and leaves the pair in the buffer; when the
\* reader reports done, what the buffer holds is not dispatched: the
\* exchange goes to completed with one completion callback and no error
\* callback, its fragments, its accumulators and its buffer are as they
\* were, and no record of the list changes its content or its sources.
TailNeverDispatched ==
  /\ [][\A e \in 1..Len(turns) : \A bytes \in {UnterminatedPair, HalfTerminatedPair} :
          (/\ lastStep' = [kind |-> "chunk", turn |-> e, bytes |-> bytes]
           /\ reads' = reads + 1
           /\ turns[e].decoder = NewDecoder) =>
            /\ turns'[e] = [turns[e] EXCEPT !.decoder.buffer = bytes]
            /\ messages' = messages]_vars
  /\ [][\A e \in 1..Len(turns) :
          (lastStep' = [kind |-> "finish", turn |-> e] /\ turns[e].phase = "streaming") =>
            /\ turns[e].finishCalls = 0
            /\ turns[e].errorCalls = 0
            /\ turns'[e] = [turns[e] EXCEPT !.phase = "completed",
                                            !.readerDone = TRUE,
                                            !.finishCalls = 1]
            /\ Len(messages') = Len(messages)
            /\ \A i \in 1..Len(messages) :
                 /\ messages'[i].content = messages[i].content
                 /\ messages'[i].sources = messages[i].sources
                 /\ messages'[i].token_usage = messages[i].token_usage]_vars

\* an exchange completed after a whole frame and then a pair of lines that
\* no blank line closed: the pair is in the buffer, the fragment of the
\* whole frame is all the answer holds
TailWitness ==
  \E e \in 1..Len(turns) :
    /\ lastStep = [kind |-> "finish", turn |-> e]
    /\ turns[e].phase = "completed"
    /\ turns[e].decoder.buffer = UnterminatedPair
    /\ turns[e].fragments = <<<<"a">>>>
    /\ turns[e].finishCalls = 1
    /\ turns[e].errorCalls = 0
    /\ messages[Len(messages)].role = "assistant"
    /\ messages[Len(messages)].content = <<"a">>
    /\ ~messages[Len(messages)].isStreaming

\* ------------------------------------------------------------------------
\* The buffer of the read loop (specification SpecBuffer): bodies with
\* more line feeds than a delimiter has, with a two-byte character, and
\* with an end inside a frame
\* ------------------------------------------------------------------------
BufferWires ==
  {MessageJsonFrame \o <<NL>> \o SourcesFrame,
   <<"x">> \o FrameDelimiter \o FrameDelimiter \o <<"y">>,
   MessageRawFrame \o UnterminatedPair,
   MessageJsonFrame \o HalfTerminatedPair}

InitBuffer ==
  /\ wire \in BufferWires
  /\ consumed = 0
  /\ decoder = NewDecoder
  /\ emitted = <<>>
  /\ called = <<>>
  /\ cutInside = FALSE
  /\ ended = FALSE
  /\ InitChat
  /\ InitSessions

SpecBuffer == InitBuffer /\ [][NextDecoder]_vars

\* the text the reader has returned so far, decoded
ReceivedText == TextDecode(FALSE, SubSeq(wire, 1, consumed)).text

\* what follows the last delimiter of a text, the delimiters being taken
\* from the left and not overlapping; the whole text when it has none
RECURSIVE AfterLastDelimiter(_)
AfterLastDelimiter(text) ==
  LET at == {i \in 1..Len(text) : HasAt(text, FrameDelimiter, i)} IN
  IF at = {} THEN text
  ELSE LET first == CHOOSE i \in at : \A j \in at : i <= j
       IN AfterLastDelimiter(SubSeq(text, first + Len(FrameDelimiter), Len(text)))

\* C39: after every chunk the buffer is the part of the text received so
\* far that follows its last blank-line delimiter, and the buffer holds no
\* blank-line delimiter.
BufferIsUndelimitedTail ==
  /\ decoder.buffer = AfterLastDelimiter(ReceivedText)
  /\ ~Includes(decoder.buffer, FrameDelimiter)

\* chunks have been read up to a point after a delimiter that a third line
\* feed follows: a frame was matched and the buffer starts with that line
\* feed
BufferWitness ==
  /\ consumed > 0
  /\ emitted # <<>>
  /\ Len(decoder.buffer) > 1
  /\ decoder.buffer[1] = NL
  /\ cutInside

\* ------------------------------------------------------------------------
\* Responses with status 401 (specification SpecAuth)
\* ------------------------------------------------------------------------
Unauthorized == <<"U", "n", "a", "u", "t", "h", "o", "r", "i", "z", "e", "d">>
NotAuthenticatedDetail ==
  <<"N", "o", "t", " ", "a", "u", "t", "h", "e", "n", "t", "i", "c", "a", "t", "e", "d">>

\* the 401 responses to the completion request: with and without a detail
UnauthorizedResponses ==
  {NotOk(Unauthorized, DetailBody(NotAuthenticatedDetail)), NotOk(Unauthorized, HtmlBody)}
UnauthorizedMessages == {ErrorMessage(response) : response \in UnauthorizedResponses}

\* the collaborator answers request c with status 401: the response
\* interceptor of `api` calls logout() and rejects, so the awaiting handler
\* sees a failure
ServerRefuses(c) ==
  /\ requests[c].stage = "sent"
  /\ requests' = [requests EXCEPT ![c] =
                    [@ EXCEPT !.stage = "answered", !.ok = FALSE,
                              !.one = NoSession, !.many = <<>>]]
  /\ auth' = logout
  /\ lastCall' = [kind |-> "refuse", call |-> c]
  /\ UNCHANGED <<sessions, isLoading, server, clock, decoderVars, chatVars>>

NextAuth ==
  \/ FetchIssue
  \/ CreateIssue
  \/ \E id \in Ids(sessions) : DeleteIssue(id)
  \/ \E id \in Ids(sessions) \cup Ids(server) : PatchIssue(id)
  \/ \E c \in 1..Len(requests) : ServerHandle(c, FALSE, FALSE)
  \/ \E c \in 1..Len(requests) : ServerRefuses(c)
  \/ \E c \in 1..Len(requests) : Settle(c)
  \/ \E input \in Questions : Send(input)
  \/ \E e \in 1..Len(turns) : \E response \in UnauthorizedResponses : RespondError(e, response)

SpecAuth == Init /\ [][NextAuth]_vars

\* a request of the session list was answered with status 401
RefusedCalls == {c \in 1..Len(requests) : lastCall = [kind |-> "refuse", call |-> c]}

\* an exchange whose completion request was answered with status 401
RefusedTurns ==
  {e \in 1..Len(turns) : turns[e].phase = "failed" /\ turns[e].errMsg \in UnauthorizedMessages}

\* C38: once a request of the session list or a completion request has
\* been answered with status 401, the authentication state is the one
\* logout() leaves: no token, no user, not authenticated.
UnauthorizedLogsOut ==
  (RefusedCalls # {} \/ RefusedTurns # {}) => auth = logout
====
